---- MODULE Spec2Model ----
(***************************************************************************)
(* Model of src/app.js (jpApp): the study log, the ranking of events, the  *)
(* review sets of yesterday / the last 7 days, the quiz hand-off and the   *)
(* quiz session.                                                           *)
(*                                                                         *)
(* Time is counted in hours since the Unix epoch (the code counts          *)
(* milliseconds; every quantity the code derives from a timestamp is a     *)
(* calendar date, so the hour keeps the day arithmetic and the time of day *)
(* within TLC's integers).                                                 *)
(***************************************************************************)
EXTENDS Integers, Sequences, FiniteSets, TLC

VARIABLES
    now,          \* Date.now(), in hours since the epoch
    studyLog,     \* localStorage 'studyLog', decoded: a sequence of events
    events,       \* argument of the last _rankEvents call under SpecRank
    ranked,       \* its result
    rankDone,     \* whether _rankEvents has been called
    reviewOp,     \* the last review-set call: "none", "yesterday", "last7"
    reviewMax,    \* its max argument
    reviewSet,    \* its result
    page,         \* window.location: "home" or "quiz"
    quizItems,    \* localStorage 'quizItems': [present, list]
    alertShown,   \* whether the alert 'nothing to review' is on the screen
    catalog,      \* the content of daily_plan.json
    hasContainer, \* whether the page has the element 'quiz-container'
    pc,           \* where buildQuizPage and its session stand
    itemIds,      \* buildQuizPage's itemIds
    plan,         \* the callback's argument: the catalog, or [] on failure
    items,        \* the session's quiz items
    current,      \* the session's cursor
    item,         \* showNext's item: the question being built or shown
    options,      \* its choices, in display order once shown
    view,         \* what the container shows
    sessionBase,  \* length of the log when the session was created
    selections,   \* the choice texts the learner selected in this session
    shown,        \* the question in the container: its item and its buttons
    fetchCalls,   \* how many times the page has called fetch
    callbackCalls, \* how many times loadDailyPlan's callback has been invoked
    consoleErrors, \* how many messages console.error has written
    malformed,    \* the localStorage keys whose text JSON.parse rejects
    thrown        \* the kinds of error handlers of the page have raised

rankVars == <<events, ranked, rankDone>>
reviewVars == <<reviewOp, reviewMax, reviewSet>>
storeVars == <<page, quizItems, alertShown>>
sessionVars == <<pc, itemIds, plan, items, current, item, options, view,
                 sessionBase, selections, shown, fetchCalls, callbackCalls,
                 consoleErrors>>
hostVars == <<malformed, thrown>>
quizVars == <<page, quizItems, alertShown, catalog, hasContainer, pc, itemIds, plan,
              items, current, item, options, view, sessionBase, selections, shown,
              fetchCalls, callbackCalls, consoleErrors>>
vars == <<now, studyLog, events, ranked, rankDone, reviewOp, reviewMax, reviewSet,
          page, quizItems, alertShown, catalog, hasContainer, pc, itemIds, plan,
          items, current, item, options, view, sessionBase, selections, shown,
          fetchCalls, callbackCalls, consoleErrors, malformed, thrown>>

----------------------------------------------------------------------------
(* Helpers on sequences *)

\* All sequences over S of length at most n.
SeqsUpTo(S, n) == UNION {[1..k -> S] : k \in 0..n}

Range(s) == {s[i] : i \in 1..Len(s)}

Max2(a, b) == IF a >= b THEN a ELSE b

Min2(a, b) == IF a <= b THEN a ELSE b

\* Array.prototype.slice(0, n) for n >= 0.
Slice0(s, n) == SubSeq(s, 1, Min2(n, Len(s)))

\* All orderings of the sequence s (as sequences).
Orderings(s) ==
    {[i \in 1..Len(s) |-> s[p[i]]] : p \in {q \in [1..Len(s) -> 1..Len(s)] :
                                              \A i, j \in 1..Len(s) : q[i] = q[j] => i = j}}

----------------------------------------------------------------------------
(* _rankEvents, src/app.js:88-104 *)

Outcomes == {"wrong", "correct", "view", "skip"}

\* score[e.outcome] || 0
Score(outcome) ==
    CASE outcome = "wrong" -> 3
      [] outcome = "correct" -> 2
      [] outcome = "view" -> 1
      [] OTHER -> 0

\* Position of id among the entries of map (0 when map has no such key).
KeyIndex(map, id) ==
    IF \E i \in 1..Len(map) : map[i].itemId = id
    THEN CHOOSE i \in 1..Len(map) : map[i].itemId = id
    ELSE 0

\* Accumulate with a slip: an event of weight 0 creates no entry.
Accumulate_SkipsWeightZero(map, e) ==
    LET k == KeyIndex(map, e.itemId)
        prev == IF k = 0 THEN [itemId |-> e.itemId, best |-> 0, lastTs |-> 0] ELSE map[k]
        entry == [itemId |-> e.itemId,
                  best |-> Max2(prev.best, Score(e.outcome)),
                  lastTs |-> Max2(prev.lastTs, e.ts)]
    IN  IF Score(e.outcome) = 0 THEN map
        ELSE IF k = 0 THEN Append(map, entry) ELSE [map EXCEPT ![k] = entry]

\* One step of events.forEach: the entry of e.itemId is created (best 0,
\* lastTs 0) or updated. map is the object's entries in key order, which for
\* keys that are not array indices is the order of first insertion.
Accumulate(map, e) ==
    LET k == KeyIndex(map, e.itemId)
        prev == IF k = 0 THEN [itemId |-> e.itemId, best |-> 0, lastTs |-> 0] ELSE map[k]
        entry == [itemId |-> e.itemId,
                  best |-> Max2(prev.best, Score(e.outcome)),
                  lastTs |-> Max2(prev.lastTs, e.ts)]
    IN  IF k = 0 THEN Append(map, entry) ELSE [map EXCEPT ![k] = entry]

RECURSIVE AccumulateAll(_, _)
AccumulateAll(map, evs) ==
    IF evs = <<>> THEN map
    ELSE AccumulateAll(Accumulate(map, Head(evs)), Tail(evs))

\* RankCompare with a slip: the tie-break puts the newest first.
RankCompare_NewestFirst(a, b) ==
    IF b.best - a.best # 0 THEN b.best - a.best ELSE b.lastTs - a.lastTs

\* The comparator (a, b) => b.best - a.best || a.lastTs - b.lastTs
RankCompare(a, b) ==
    IF b.best - a.best # 0 THEN b.best - a.best ELSE a.lastTs - b.lastTs

\* Insert r into the sorted sequence s behind every element that does not
\* compare greater than r: Array.prototype.sort is stable.
StableInsert(s, r) ==
    LET after == {i \in 1..Len(s) : RankCompare(s[i], r) > 0}
        k == IF after = {} THEN Len(s) + 1
             ELSE CHOOSE i \in after : \A j \in after : i <= j
    IN  SubSeq(s, 1, k - 1) \o <<r>> \o SubSeq(s, k, Len(s))

RECURSIVE StableSort(_, _)
StableSort(sorted, rest) ==
    IF rest = <<>> THEN sorted
    ELSE StableSort(StableInsert(sorted, Head(rest)), Tail(rest))

\* Object.values(map).sort(...)
RankedItems(evs) == StableSort(<<>>, AccumulateAll(<<>>, evs))

_rankEvents(evs) ==
    LET r == RankedItems(evs) IN [i \in 1..Len(r) |-> r[i].itemId]

----------------------------------------------------------------------------
(* _kstYMD and _daysAgo, src/app.js:71-84 *)

HoursPerDay == 24

\* Asia/Seoul is UTC+9 all year (no daylight saving time since 1988).
KstOffsetHours == 9

\* Days since 1970-01-01 of the Asia/Seoul calendar date of instant t.
KstDayNumber(t) == (t + KstOffsetHours) \div HoursPerDay

\* 2025-01-01 00:00 in Asia/Seoul (day 20089 of the epoch), so that the
\* window of the last 7 days lies in the previous month and year.
KstMidnight == 20089 * HoursPerDay - KstOffsetHours

\* The proleptic Gregorian date <<year, month, day>> of day number z >= 0.
CivilFromDays(z) ==
    LET s == z + 719468
        era == s \div 146097
        doe == s - era * 146097
        yoe == (doe - doe \div 1460 + doe \div 36524 - doe \div 146096) \div 365
        doy == doe - (365 * yoe + yoe \div 4 - yoe \div 100)
        mp == (5 * doy + 2) \div 153
        d == doy - (153 * mp + 2) \div 5 + 1
        m == IF mp < 10 THEN mp + 3 ELSE mp - 9
        y == yoe + era * 400 + (IF m <= 2 THEN 1 ELSE 0)
    IN  <<y, m, d>>

\* Strings are sequences of UTF-16 code units: '0' is 48, '-' is 45.
Digit(n) == 48 + n

Hyphen == 45

\* Intl.DateTimeFormat('en-CA', {timeZone: 'Asia/Seoul', ...}).format(date):
\* "YYYY-MM-DD" with 4-digit year, 2-digit month and day.
_kstYMD(t) ==
    LET c == CivilFromDays(KstDayNumber(t))
        y == c[1]
        m == c[2]
        d == c[3]
    IN  <<Digit(y \div 1000), Digit((y \div 100) % 10), Digit((y \div 10) % 10), Digit(y % 10),
          Hyphen, Digit(m \div 10), Digit(m % 10),
          Hyphen, Digit(d \div 10), Digit(d % 10)>>

\* _daysAgo with a slip: n taken in the clock's unit instead of in days.
_daysAgo_NoDayFactor(t, n) == t - n

\* new Date(Date.now() - n * 24 * 60 * 60 * 1000), with Date.now() = t
_daysAgo(t, n) == t - n * HoursPerDay

\* a <= b on strings: code units compared from the left.
StrLeq(a, b) ==
    \/ a = b
    \/ \E k \in 1..Min2(Len(a), Len(b)) :
          /\ \A j \in 1..(k - 1) : a[j] = b[j]
          /\ a[k] < b[k]
    \/ /\ Len(a) < Len(b)
       /\ \A j \in 1..Len(a) : a[j] = b[j]

----------------------------------------------------------------------------
(* getYesterdayReviewSet and getLast7DaysReviewSet, src/app.js:108-126 *)

\* log.filter(e => this._kstYMD(new Date(e.ts)) === target)
YesterdayEvents(log, t) ==
    LET target == _kstYMD(_daysAgo(t, 1))
    IN  SelectSeq(log, LAMBDA e : _kstYMD(e.ts) = target)

\* Last7DaysEvents with a slip: the start of the window is exclusive.
Last7DaysEvents_ExclusiveStart(log, t) ==
    LET start == _kstYMD(_daysAgo(t, 7))
        end == _kstYMD(_daysAgo(t, 1))
    IN  SelectSeq(log, LAMBDA e : /\ StrLeq(start, _kstYMD(e.ts))
                                  /\ _kstYMD(e.ts) # start
                                  /\ StrLeq(_kstYMD(e.ts), end))

\* Last7DaysEvents with a slip: the window ends today.
Last7DaysEvents_EndsToday(log, t) ==
    LET start == _kstYMD(_daysAgo(t, 7))
        end == _kstYMD(_daysAgo(t, 0))
    IN  SelectSeq(log, LAMBDA e : StrLeq(start, _kstYMD(e.ts)) /\ StrLeq(_kstYMD(e.ts), end))

\* log.filter(e => { d = _kstYMD(e.ts); return d >= start && d <= end })
Last7DaysEvents(log, t) ==
    LET start == _kstYMD(_daysAgo(t, 7))
        end == _kstYMD(_daysAgo(t, 1))
    IN  SelectSeq(log, LAMBDA e : StrLeq(start, _kstYMD(e.ts)) /\ StrLeq(_kstYMD(e.ts), end))

\* getYesterdayReviewSet with a slip: the events are cut to max before ranking.
getYesterdayReviewSet_CutsEvents(log, t, max) ==
    _rankEvents(Slice0(YesterdayEvents(log, t), max))

getYesterdayReviewSet(log, t, max) == Slice0(_rankEvents(YesterdayEvents(log, t)), max)

getLast7DaysReviewSet(log, t, max) == Slice0(_rankEvents(Last7DaysEvents(log, t)), max)

----------------------------------------------------------------------------
(* Study events *)

\* Item ids as generateQuizData synthesizes them (D{day}W{word}, D{day}P).
ItemIds == {"D1W1", "D1W2", "D1P"}

ItemTypeOf(id) == IF id = "D1P" THEN "pattern" ELSE "word"

\* The events logStudy can have written for the given ids, outcomes, instants.
EventsOver(ids, outcomes, instants) ==
    {[itemId |-> i, itemType |-> ItemTypeOf(i), outcome |-> o, ts |-> t] :
        i \in ids, o \in outcomes, t \in instants}

----------------------------------------------------------------------------
(* logStudy, src/app.js:63-67 *)

\* logStudy with a slip: the new event is stored without the log read before.
logStudy_Overwrites(log, itemId, itemType, outcome, t) ==
    <<[itemId |-> itemId, itemType |-> itemType, outcome |-> outcome, ts |-> t]>>

\* The log after logStudy({itemId, itemType, outcome}) at instant t.
logStudy(log, itemId, itemType, outcome, t) ==
    Append(log, [itemId |-> itemId, itemType |-> itemType, outcome |-> outcome, ts |-> t])

----------------------------------------------------------------------------
(* The catalog and generateQuizData, src/app.js:155-172 *)

Word(jp, ko) == [jp |-> jp, ko |-> ko]

Day1 ==
    [words |-> <<Word("inu", "gae"), Word("neko", "goyangi")>>,
     pattern |-> "desu", pattern_ko |-> "ida"]

Day2 ==
    [words |-> <<Word("mizu", "mul"), Word("hon", "chaek")>>,
     pattern |-> "masu", pattern_ko |-> "hada"]

\* Two days, four distinct word translations.
PlanTwoDays == <<Day1, Day2>>

\* One day: fewer than four distinct word translations.
PlanOneDay == <<Day1>>

\* Every day of a catalog has at least one word (line 204 reads the ko of a
\* word of the sampled day).
Catalogs == {<<>>, PlanOneDay, PlanTwoDays}

\* A day whose list of words is empty.
DayNoWords == [words |-> <<>>, pattern |-> "masen", pattern_ko |-> "anida"]

\* Three days, four distinct word translations, the last day without words.
PlanGap == <<Day1, Day2, DayNoWords>>

\* The catalogs daily_plan.json can hold: any list of days.
PageCatalogs == Catalogs \cup {PlanGap}

\* The word translations catalog p supplies.
Translations(p) == UNION {{p[d].words[w].ko : w \in 1..Len(p[d].words)} : d \in 1..Len(p)}

\* `D${di + 1}W${wi + 1}` and `D${di + 1}P`, with d and w counted from 1
WordId(d, w) == "D" \o ToString(d) \o "W" \o ToString(w)

PatternId(d) == "D" \o ToString(d) \o "P"

\* generateQuizData with a slip: the items follow the requested list.
\* The catalog entries of plan p, by id.
EntriesOf(p) ==
    UNION {{[id |-> WordId(d, w), type |-> "word",
             jp |-> p[d].words[w].jp, ko |-> p[d].words[w].ko] :
                w \in 1..Len(p[d].words)}
           \cup {[id |-> PatternId(d), type |-> "pattern",
                   jp |-> p[d].pattern, ko |-> p[d].pattern_ko]} :
           d \in 1..Len(p)}

RECURSIVE generateQuizData_RequestOrder(_, _)
generateQuizData_RequestOrder(ids, p) ==
    IF ids = <<>> THEN <<>>
    ELSE (IF \E q \in EntriesOf(p) : q.id = Head(ids)
          THEN <<CHOOSE q \in EntriesOf(p) : q.id = Head(ids)>>
          ELSE <<>>)
         \o generateQuizData_RequestOrder(Tail(ids), p)

RECURSIVE DayWordItems(_, _, _, _)
\* day.words.forEach from word w on: the words whose id is requested.
DayWordItems(ids, day, d, w) ==
    IF w > Len(day.words) THEN <<>>
    ELSE (IF WordId(d, w) \in Range(ids)
          THEN <<[id |-> WordId(d, w), type |-> "word",
                  jp |-> day.words[w].jp, ko |-> day.words[w].ko]>>
          ELSE <<>>)
         \o DayWordItems(ids, day, d, w + 1)

\* One step of plan.forEach: the requested words of the day, then its pattern.
DayItems(ids, day, d) ==
    DayWordItems(ids, day, d, 1)
    \o (IF PatternId(d) \in Range(ids)
        THEN <<[id |-> PatternId(d), type |-> "pattern",
                jp |-> day.pattern, ko |-> day.pattern_ko]>>
        ELSE <<>>)

RECURSIVE PlanItems(_, _, _)
PlanItems(ids, p, d) ==
    IF d > Len(p) THEN <<>>
    ELSE DayItems(ids, p[d], d) \o PlanItems(ids, p, d + 1)

generateQuizData(ids, p) == PlanItems(ids, p, 1)

----------------------------------------------------------------------------
(* startQuiz, src/app.js:130-139 *)

\* Bound of the model: a list is handed off only while the log has room
\* for one answer per id of the list.
MaxStudyLog == 2

\* The argument of startQuiz: null/undefined, or a list of ids.
NullArg == [isNull |-> TRUE, list |-> <<>>]

ListArg(ids) == [isNull |-> FALSE, list |-> ids]

NoItem == [id |-> "", type |-> "", jp |-> "", ko |-> ""]

\* The keys of localStorage the code reads with JSON.parse.
StoreKeys == {"studyLog", "quizItems"}

\* The container holds no question.
NoQuestion == [item |-> NoItem, options |-> <<>>]

\* No handler has raised an error and both stored texts decode.
SoundHost ==
    /\ malformed = {}
    /\ thrown = {}

\* No buildQuizPage call yet on the page.
FreshSession ==
    /\ pc = "idle"
    /\ itemIds = <<>>
    /\ plan = <<>>
    /\ items = <<>>
    /\ current = 0
    /\ item = NoItem
    /\ options = <<>>
    /\ view = ""
    /\ sessionBase = 0
    /\ selections = <<>>
    /\ shown = NoQuestion
    /\ fetchCalls = 0
    /\ callbackCalls = 0
    /\ consoleErrors = 0

\* A page load: the script's state starts over.
ResetSession ==
    /\ pc' = "idle"
    /\ itemIds' = <<>>
    /\ plan' = <<>>
    /\ items' = <<>>
    /\ current' = 0
    /\ item' = NoItem
    /\ options' = <<>>
    /\ view' = ""
    /\ sessionBase' = 0
    /\ selections' = <<>>
    /\ shown' = NoQuestion
    /\ fetchCalls' = 0
    /\ callbackCalls' = 0
    /\ consoleErrors' = 0

\* startQuiz with a slip: no check of the list.
StartQuiz_NoEmptyCheck(arg) ==
    /\ page = "home"
    /\ ~alertShown
    /\ Len(studyLog) + Len(arg.list) <= MaxStudyLog
    /\ quizItems' = [present |-> TRUE, list |-> arg.list]
    /\ malformed' = malformed \ {"quizItems"}
    /\ page' = "quiz"
    /\ ResetSession
    /\ UNCHANGED <<now, thrown, studyLog, rankVars, reviewVars, alertShown, catalog,
                   hasContainer>>

\* startQuiz(itemIds) on a page other than the quiz page: alert(...) and
\* return, or the list is stored (the text setItem writes decodes, whatever
\* the key held before) and the quiz page is loaded, whose script state is new.
StartQuiz(arg) ==
    /\ page = "home"
    /\ ~alertShown
    /\ IF arg.isNull \/ Len(arg.list) = 0
       THEN /\ alertShown' = TRUE
            /\ UNCHANGED <<page, quizItems, malformed, sessionVars>>
       ELSE /\ Len(studyLog) + Len(arg.list) <= MaxStudyLog
            /\ quizItems' = [present |-> TRUE, list |-> arg.list]
            /\ malformed' = malformed \ {"quizItems"}
            /\ page' = "quiz"
            /\ ResetSession
            /\ UNCHANGED alertShown
    /\ UNCHANGED <<now, thrown, studyLog, rankVars, reviewVars, catalog, hasContainer>>

----------------------------------------------------------------------------
(* loadDailyPlan and buildQuizPage, src/app.js:143-151 and 176-224 *)

\* showNext() with cursor cur over the items its: no container, nothing;
\* cursor at the end, the completion text replaces the container's content;
\* else the next question's choices start from its answer (the container
\* keeps its content until line 219).
ShowNext(cur, its) ==
    IF ~hasContainer
    THEN pc' = "blank" /\ UNCHANGED <<item, options, view, shown>>
    ELSE IF cur >= Len(its)
    THEN /\ pc' = "complete"
         /\ view' = "complete"
         /\ shown' = NoQuestion
         /\ UNCHANGED <<item, options>>
    ELSE /\ pc' = "sampling"
         /\ item' = its[cur + 1]
         /\ options' = <<its[cur + 1].ko>>
         /\ UNCHANGED <<view, shown>>

\* buildQuizPage(): the pending list is read (JSON.parse raises SyntaxError
\* on a text that does not decode, and nothing catches it); empty, the
\* container says so; otherwise the catalog is fetched.
BuildQuizPage ==
    /\ page = "quiz"
    /\ pc = "idle"
    /\ IF "quizItems" \in malformed
       THEN /\ pc' = "raised"
            /\ thrown' = thrown \cup {"SyntaxError"}
            /\ UNCHANGED <<itemIds, view, fetchCalls>>
       ELSE LET ids == IF quizItems.present THEN quizItems.list ELSE <<>>
            IN  /\ itemIds' = ids
                /\ UNCHANGED thrown
                /\ IF Len(ids) = 0
                   THEN /\ pc' = "empty"
                        /\ view' = IF hasContainer THEN "noItems" ELSE view
                        /\ UNCHANGED fetchCalls
                   ELSE /\ pc' = "fetching"
                        /\ fetchCalls' = fetchCalls + 1
                        /\ UNCHANGED view
    /\ UNCHANGED <<now, malformed, studyLog, rankVars, reviewVars, storeVars, catalog,
                   hasContainer, plan, items, current, item, options, sessionBase,
                   selections, shown, callbackCalls, consoleErrors>>

\* The callback of loadDailyPlan with argument p: the session is created
\* and showNext() runs.
Callback(p) ==
    /\ callbackCalls' = callbackCalls + 1
    /\ plan' = p
    /\ items' = generateQuizData(itemIds, p)
    /\ current' = 0
    /\ sessionBase' = Len(studyLog)
    /\ selections' = <<>>
    /\ ShowNext(0, generateQuizData(itemIds, p))
    /\ UNCHANGED <<now, hostVars, studyLog, rankVars, reviewVars, storeVars, catalog,
                   hasContainer, itemIds, fetchCalls>>

\* fetch(...).then(res => res.json()).then(callback)
FetchSucceeds ==
    /\ pc = "fetching"
    /\ Callback(catalog)
    /\ UNCHANGED consoleErrors

\* The handler of .catch with a slip: nothing is written to the console.
CatchHandler_Silent ==
    /\ UNCHANGED consoleErrors
    /\ Callback(<<>>)

\* The handler of .catch: console.error(...); callback([])
CatchHandler ==
    /\ consoleErrors' = consoleErrors + 1
    /\ Callback(<<>>)

\* The fetch is rejected, or res.json() is: the chain goes to .catch.
FetchFails ==
    /\ pc = "fetching"
    /\ CatchHandler

\* Sampled with a slip: the candidate is pushed without the includes test.
Sampled_NoIncludesTest(d, w) == Append(options, plan[d].words[w].ko)

\* The choices after one pass of the loop that samples day d, word w.
Sampled(d, w) ==
    LET rw == plan[d].words[w].ko
    IN  IF rw \in Range(options) THEN options ELSE Append(options, rw)

\* One pass of while (options.length < 4) that leaves fewer than 4 choices.
SampleDistractor(d, w) ==
    /\ pc = "sampling"
    /\ Len(Sampled(d, w)) < 4
    /\ options' = Sampled(d, w)
    /\ UNCHANGED <<now, hostVars, studyLog, rankVars, reviewVars, storeVars, catalog,
                   hasContainer, pc, itemIds, plan, items, current, item, view,
                   sessionBase, selections, shown, fetchCalls, callbackCalls,
                   consoleErrors>>

\* The pass that finds the 4th choice, and the rest of showNext: the choices
\* are shuffled (the random comparator can give any order) and the question
\* replaces the container's content.
SampleLastAndShow(d, w) ==
    /\ pc = "sampling"
    /\ Len(Sampled(d, w)) = 4
    /\ \E shuffled \in Orderings(Sampled(d, w)) :
          /\ options' = shuffled
          /\ shown' = [item |-> item, options |-> shuffled]
    /\ pc' = "presenting"
    /\ view' = "question"
    /\ UNCHANGED <<now, hostVars, studyLog, rankVars, reviewVars, storeVars, catalog,
                   hasContainer, itemIds, plan, items, current, item, sessionBase,
                   selections, fetchCalls, callbackCalls, consoleErrors>>

\* A pass of the loop that samples a day d without words: rd.words[0] is
\* undefined and reading its ko raises TypeError (line 204). In the showNext()
\* of the callback (cursor 0) the promise of .then(callback) is rejected and
\* the handler of .catch runs; in the showNext() of a click (cursor past 0)
\* nothing catches it: line 219 is not reached, so the container keeps the
\* question it shows, whose buttons stay live.
SampleThrows(d) ==
    /\ pc = "sampling"
    /\ Len(plan[d].words) = 0
    /\ IF current = 0
       THEN CatchHandler
       ELSE /\ thrown' = thrown \cup {"TypeError"}
            /\ pc' = "presenting"
            /\ item' = shown.item
            /\ options' = shown.options
            /\ UNCHANGED <<now, malformed, studyLog, rankVars, reviewVars, storeVars,
                           catalog, hasContainer, itemIds, plan, items, current, view,
                           sessionBase, selections, shown, fetchCalls, callbackCalls,
                           consoleErrors>>

\* btn.onclick with a slip: the outcome compares with the prompt.
SelectChoice_ComparesPrompt(k) ==
    /\ pc = "presenting"
    /\ IF "studyLog" \in malformed
       THEN /\ thrown' = thrown \cup {"SyntaxError"}
            /\ UNCHANGED <<studyLog, sessionVars>>
       ELSE /\ studyLog' = logStudy(studyLog, item.id, item.type,
                                    IF options[k] = item.jp THEN "correct" ELSE "wrong", now)
            /\ current' = current + 1
            /\ selections' = Append(selections, options[k])
            /\ ShowNext(current + 1, items)
            /\ UNCHANGED <<thrown, itemIds, plan, items, sessionBase, fetchCalls,
                           callbackCalls, consoleErrors>>
    /\ UNCHANGED <<now, malformed, rankVars, reviewVars, storeVars, catalog, hasContainer>>

\* btn.onclick of the k-th button: logStudy reads the log (SyntaxError when
\* its text does not decode: the handler ends there) and appends the event
\* of the button's item, with outcome correct when the button's text is the
\* answer; the cursor advances and showNext() runs.
SelectChoice(k) ==
    /\ pc = "presenting"
    /\ IF "studyLog" \in malformed
       THEN /\ thrown' = thrown \cup {"SyntaxError"}
            /\ UNCHANGED <<studyLog, sessionVars>>
       ELSE /\ studyLog' = logStudy(studyLog, item.id, item.type,
                                    IF options[k] = item.ko THEN "correct" ELSE "wrong", now)
            /\ current' = current + 1
            /\ selections' = Append(selections, options[k])
            /\ ShowNext(current + 1, items)
            /\ UNCHANGED <<thrown, itemIds, plan, items, sessionBase, fetchCalls,
                           callbackCalls, consoleErrors>>
    /\ UNCHANGED <<now, malformed, rankVars, reviewVars, storeVars, catalog, hasContainer>>

----------------------------------------------------------------------------
(* The pages around the quiz *)

\* The ids a caller hands to startQuiz: a word, a pattern, an id no catalog has.
RequestIds == {"D1W1", "D2P", "D9W1"}

\* Bound of the model: the length of a list handed to startQuiz.
MaxQuizLen == 2

StartQuizArgs == {NullArg} \cup {ListArg(ids) : ids \in SeqsUpTo(RequestIds, MaxQuizLen)}

\* The learner closes the alert; until then the page runs nothing else.
DismissAlert ==
    /\ alertShown
    /\ alertShown' = FALSE
    /\ UNCHANGED <<now, hostVars, studyLog, rankVars, reviewVars, page, quizItems, catalog,
                   hasContainer, sessionVars>>

\* The item a study page shows.
ViewIds == {"D1W2"}

\* A study page records that an item was viewed.
LogView(id) ==
    /\ page = "home"
    /\ ~alertShown
    /\ Len(studyLog) = 0
    /\ IF "studyLog" \in malformed
       THEN thrown' = thrown \cup {"SyntaxError"} /\ UNCHANGED studyLog
       ELSE /\ studyLog' = logStudy(studyLog, id, ItemTypeOf(id), "view", now)
            /\ UNCHANGED thrown
    /\ UNCHANGED <<now, malformed, rankVars, reviewVars, quizVars>>

\* The learner leaves the quiz page ("go back home"): its script state is gone.
GoHome ==
    /\ page = "quiz"
    /\ page' = "home"
    /\ ResetSession
    /\ UNCHANGED <<now, hostVars, studyLog, rankVars, reviewVars, quizItems, alertShown, catalog,
                   hasContainer>>

IdleQuiz ==
    /\ page = "home"
    /\ quizItems = [present |-> FALSE, list |-> <<>>]
    /\ alertShown = FALSE
    /\ FreshSession

----------------------------------------------------------------------------
(* SpecRank: _rankEvents applied to every bounded event sequence *)

\* Bound of the model: the number of events given to _rankEvents.
MaxEvents == 3

\* Two instants, as in the tie-break example (t = 5, t = 10).
RankInstants == {5, 10}

RankInputs == SeqsUpTo(EventsOver(ItemIds, Outcomes, RankInstants), MaxEvents)

IdleReview ==
    /\ reviewOp = "none"
    /\ reviewMax = 0
    /\ reviewSet = <<>>

IdleRank ==
    /\ events = <<>>
    /\ ranked = <<>>
    /\ rankDone = FALSE

InitRank ==
    /\ now = 0
    /\ studyLog = <<>>
    /\ events \in RankInputs
    /\ ranked = <<>>
    /\ rankDone = FALSE
    /\ IdleReview
    /\ IdleQuiz
    /\ SoundHost
    /\ catalog = <<>>
    /\ hasContainer = TRUE

CallRankEvents ==
    /\ ~rankDone
    /\ ranked' = _rankEvents(events)
    /\ rankDone' = TRUE
    /\ UNCHANGED <<now, hostVars, studyLog, events, reviewVars, quizVars>>

NextRank == CallRankEvents

SpecRank == InitRank /\ [][NextRank]_vars

----------------------------------------------------------------------------
(* SpecReview: the review sets of every bounded log at several instants *)

\* Bounds of the model: the length of the log, and the largest max besides
\* the default.
MaxLog == 2

MaxMax == 2

\* max = 30 when the caller passes none.
DefaultMax == 30

ReviewMaxes == (0..MaxMax) \cup {DefaultMax}

\* 'now': the first and the last hour of that day.
ReviewNows == {KstMidnight, KstMidnight + 23}

\* Instants of events: the first and last hours of today, of yesterday, the
\* last hour of the day before, the first hour of today-7, the last of today-8.
ReviewInstants ==
    {KstMidnight + 23, KstMidnight,
     KstMidnight - 1, KstMidnight - 24,
     KstMidnight - 25,
     KstMidnight - 7 * 24, KstMidnight - 7 * 24 - 1}

ReviewOutcomes == {"wrong", "view"}

\* logStudy stamps each event with Date.now(): the log is in time order and
\* holds no event later than 'now'.
InTimeOrder(log, t) ==
    /\ \A i \in 1..Len(log) : log[i].ts <= t
    /\ \A i \in 1..(Len(log) - 1) : log[i].ts <= log[i + 1].ts

ReviewLogs(t) ==
    {log \in SeqsUpTo(EventsOver(ItemIds, ReviewOutcomes, ReviewInstants), MaxLog) :
        InTimeOrder(log, t)}

InitReview ==
    /\ now \in ReviewNows
    /\ studyLog \in ReviewLogs(now)
    /\ IdleRank
    /\ IdleReview
    /\ IdleQuiz
    /\ SoundHost
    /\ catalog = <<>>
    /\ hasContainer = TRUE

CallGetYesterdayReviewSet(max) ==
    /\ reviewOp = "none"
    /\ reviewOp' = "yesterday"
    /\ reviewMax' = max
    /\ IF "studyLog" \in malformed
       THEN thrown' = thrown \cup {"SyntaxError"} /\ UNCHANGED reviewSet
       ELSE /\ reviewSet' = getYesterdayReviewSet(studyLog, now, max)
            /\ UNCHANGED thrown
    /\ UNCHANGED <<now, malformed, studyLog, rankVars, quizVars>>

CallGetLast7DaysReviewSet(max) ==
    /\ reviewOp = "none"
    /\ reviewOp' = "last7"
    /\ reviewMax' = max
    /\ IF "studyLog" \in malformed
       THEN thrown' = thrown \cup {"SyntaxError"} /\ UNCHANGED reviewSet
       ELSE /\ reviewSet' = getLast7DaysReviewSet(studyLog, now, max)
            /\ UNCHANGED thrown
    /\ UNCHANGED <<now, malformed, studyLog, rankVars, quizVars>>

NextReview ==
    \/ \E max \in ReviewMaxes : CallGetYesterdayReviewSet(max)
    \/ \E max \in ReviewMaxes : CallGetLast7DaysReviewSet(max)

SpecReview == InitReview /\ [][NextReview]_vars

----------------------------------------------------------------------------
(* SpecQuizData: generateQuizData applied to bounded requests and catalogs *)

\* Bound of the model: the number of requested ids.
MaxRequest == 3

\* Requested ids: words and patterns of two days, and ids no catalog has.
QuizDataIds == {"D1W1", "D1W2", "D1P", "D2W1", "D2P", "D3W1", "D1W3"}

InitQuizData ==
    /\ now = 0
    /\ studyLog = <<>>
    /\ IdleRank
    /\ IdleReview
    /\ page = "quiz"
    /\ quizItems = [present |-> FALSE, list |-> <<>>]
    /\ alertShown = FALSE
    /\ catalog = <<>>
    /\ hasContainer = TRUE
    /\ pc = "idle"
    /\ itemIds \in SeqsUpTo(QuizDataIds, MaxRequest)
    /\ plan \in Catalogs
    /\ items = <<>>
    /\ current = 0
    /\ item = NoItem
    /\ options = <<>>
    /\ view = ""
    /\ sessionBase = 0
    /\ selections = <<>>
    /\ shown = NoQuestion
    /\ fetchCalls = 0
    /\ callbackCalls = 0
    /\ consoleErrors = 0
    /\ SoundHost

CallGenerateQuizData ==
    /\ pc = "idle"
    /\ items' = generateQuizData(itemIds, plan)
    /\ pc' = "generated"
    /\ UNCHANGED <<now, hostVars, studyLog, rankVars, reviewVars, storeVars, catalog, hasContainer,
                   itemIds, plan, current, item, options, view, sessionBase, selections,
                   shown, fetchCalls, callbackCalls, consoleErrors>>

NextQuizData == CallGenerateQuizData

SpecQuizData == InitQuizData /\ [][NextQuizData]_vars

----------------------------------------------------------------------------
(* Spec: the pages, the hand-off and the quiz session *)

\* A fresh profile on a study page. The clock stands still: the hand-off
\* and a quiz session take less than one unit (hour) of the clock.
Init ==
    /\ now = KstMidnight
    /\ studyLog = <<>>
    /\ IdleRank
    /\ IdleReview
    /\ IdleQuiz
    /\ SoundHost
    /\ catalog \in Catalogs
    /\ hasContainer \in BOOLEAN

Next ==
    \/ \E id \in ViewIds : LogView(id)
    \/ DismissAlert
    \/ \E arg \in StartQuizArgs : StartQuiz(arg)
    \/ GoHome
    \/ BuildQuizPage
    \/ FetchSucceeds
    \/ FetchFails
    \/ \E d \in 1..Len(plan) : \E w \in 1..Len(plan[d].words) : SampleDistractor(d, w)
    \/ \E d \in 1..Len(plan) : \E w \in 1..Len(plan[d].words) : SampleLastAndShow(d, w)
    \/ \E k \in 1..Len(options) : SelectChoice(k)

Spec == Init /\ [][Next]_vars

----------------------------------------------------------------------------
(* SpecCore: the operations of jpApp called in any order over two days *)

\* Bounds of the model: the length of the log the profile starts with, and
\* the length the log grows to.
MaxCoreInit == 1

MaxCoreLog == 2

CoreIds == {"D1W1", "D1W2"}

\* Instants of the events already logged: the last hour of yesterday and
\* the first hour of today-7.
CoreInstants == {KstMidnight - 1, KstMidnight - 7 * 24}

\* Instants the clock moves to: the last hour of today, the first of tomorrow.
CoreLater == {KstMidnight + 23, KstMidnight + 24}

CoreMaxes == {1, DefaultMax}

CoreArgs == {NullArg, ListArg(<<>>), ListArg(<<"D1W1">>)}

\* A log text that does not decode stands for no log.
InitCore ==
    /\ now = KstMidnight
    /\ malformed \in SUBSET StoreKeys
    /\ studyLog \in SeqsUpTo(EventsOver(CoreIds, {"wrong"}, CoreInstants), MaxCoreInit)
    /\ InTimeOrder(studyLog, now)
    /\ "studyLog" \in malformed => studyLog = <<>>
    /\ IdleRank
    /\ IdleReview
    /\ page = "home"
    /\ quizItems = [present |-> FALSE, list |-> <<>>]
    /\ alertShown = FALSE
    /\ pc = "idle"
    /\ itemIds = <<"D2W1", "D1P">>
    /\ plan = PlanTwoDays
    /\ items = <<>>
    /\ current = 0
    /\ item = NoItem
    /\ options = <<>>
    /\ view = ""
    /\ sessionBase = 0
    /\ selections = <<>>
    /\ shown = NoQuestion
    /\ fetchCalls = 0
    /\ callbackCalls = 0
    /\ consoleErrors = 0
    /\ thrown = {}
    /\ catalog = PlanTwoDays
    /\ hasContainer = TRUE

\* jpApp.logStudy({itemId, itemType, outcome}) called by a page: the log is
\* read (SyntaxError when its text does not decode), the event is pushed
\* with ts: Date.now() and the log is stored.
LogStudy(id, outcome) ==
    /\ ~alertShown
    /\ Len(studyLog) < MaxCoreLog
    /\ IF "studyLog" \in malformed
       THEN thrown' = thrown \cup {"SyntaxError"} /\ UNCHANGED studyLog
       ELSE /\ studyLog' = logStudy(studyLog, id, ItemTypeOf(id), outcome, now)
            /\ UNCHANGED thrown
    /\ UNCHANGED <<now, malformed, rankVars, reviewVars, quizVars>>

\* Time passes.
Tick ==
    /\ \E t \in CoreLater : t > now /\ now' = t
    /\ UNCHANGED <<hostVars, studyLog, rankVars, reviewVars, quizVars>>

NextCore ==
    \/ \E id \in CoreIds : \E outcome \in ReviewOutcomes : LogStudy(id, outcome)
    \/ \E max \in CoreMaxes : CallGetYesterdayReviewSet(max)
    \/ \E max \in CoreMaxes : CallGetLast7DaysReviewSet(max)
    \/ \E arg \in CoreArgs : StartQuiz(arg)
    \/ DismissAlert
    \/ CallGenerateQuizData
    \/ Tick

SpecCore == InitCore /\ [][NextCore]_vars

----------------------------------------------------------------------------
(* SpecPage: one load of the quiz page, whatever localStorage and the *)
(* catalog hold *)

\* What the key 'quizItems' can hold: nothing, or a list startQuiz wrote.
PendingLists ==
    {[present |-> FALSE, list |-> <<>>]}
    \cup {[present |-> TRUE, list |-> ids] : ids \in SeqsUpTo(RequestIds, MaxQuizLen)}

\* A text that does not decode stands for no list and no log.
InitPage ==
    /\ now = KstMidnight
    /\ studyLog = <<>>
    /\ IdleRank
    /\ IdleReview
    /\ page = "quiz"
    /\ malformed \in SUBSET StoreKeys
    /\ quizItems \in PendingLists
    /\ "quizItems" \in malformed => ~quizItems.present
    /\ alertShown = FALSE
    /\ FreshSession
    /\ thrown = {}
    /\ catalog \in PageCatalogs
    /\ hasContainer \in BOOLEAN

NextPage ==
    \/ BuildQuizPage
    \/ FetchSucceeds
    \/ FetchFails
    \/ \E d \in 1..Len(plan) : \E w \in 1..Len(plan[d].words) : SampleDistractor(d, w)
    \/ \E d \in 1..Len(plan) : \E w \in 1..Len(plan[d].words) : SampleLastAndShow(d, w)
    \/ \E d \in 1..Len(plan) : SampleThrows(d)
    \/ \E k \in 1..Len(options) : SelectChoice(k)

SpecPage == InitPage /\ [][NextPage]_vars

\* Math.random() is fair: a sample that would add a choice is drawn in the
\* end; the fetch settles; the learner keeps answering.
FairPage ==
    /\ WF_vars(BuildQuizPage)
    /\ WF_vars(FetchSucceeds \/ FetchFails)
    /\ WF_vars(\E d \in 1..Len(plan) : \E w \in 1..Len(plan[d].words) :
                  SampleDistractor(d, w))
    /\ WF_vars(\E d \in 1..Len(plan) : \E w \in 1..Len(plan[d].words) :
                  SampleLastAndShow(d, w))
    /\ WF_vars(\E k \in 1..Len(options) : SelectChoice(k))

SpecPageFair == SpecPage /\ FairPage

----------------------------------------------------------------------------
(* Properties of _rankEvents (specification SpecRank) *)

\* The events of item id among evs.
EventsOf(evs, id) == {e \in Range(evs) : e.itemId = id}

SetMax(S) == CHOOSE x \in S : \A y \in S : y <= x

\* best(id): the maximum weight over the item's events.
BestOf(evs, id) == SetMax({Score(e.outcome) : e \in EventsOf(evs, id)})

\* lastTs(id): the maximum timestamp over the item's events.
LastTsOf(evs, id) == SetMax({e.ts : e \in EventsOf(evs, id)})

\* C1: whenever x precedes y in the output of _rankEvents, best(x) > best(y),
\* or best(x) = best(y) and lastTs(x) <= lastTs(y).
C1_RankSorted ==
    rankDone =>
        \A i, j \in 1..Len(ranked) :
            i < j =>
                \/ BestOf(events, ranked[i]) > BestOf(events, ranked[j])
                \/ /\ BestOf(events, ranked[i]) = BestOf(events, ranked[j])
                   /\ LastTsOf(events, ranked[i]) <= LastTsOf(events, ranked[j])

\* A ranking of three items in which the sort moved a later-inserted item to
\* the front on the tie-break, and a less severe item comes last.
C1_Witness ==
    /\ rankDone
    /\ Len(ranked) = 3
    /\ events[1].itemId = ranked[2]
    /\ BestOf(events, ranked[1]) = BestOf(events, ranked[2])
    /\ LastTsOf(events, ranked[1]) < LastTsOf(events, ranked[2])
    /\ BestOf(events, ranked[2]) > BestOf(events, ranked[3])

\* C2: every ordering of the same event multiset is ranked identically, also
\* when two distinct items have the same best and the same lastTs.
C2_OrderIndependent ==
    rankDone => \A p \in Orderings(events) : _rankEvents(p) = ranked

\* C3: the output of _rankEvents holds each distinct itemId of the input
\* exactly once and no other id, items of weight 0 included; empty input
\* gives empty output.
C3_EachItemOnce ==
    rankDone =>
        /\ Range(ranked) = {e.itemId : e \in Range(events)}
        /\ Len(ranked) = Cardinality({e.itemId : e \in Range(events)})

\* A ranking of an input with a repeated item and an item whose only event
\* has an unknown outcome.
C3_Witness ==
    /\ rankDone
    /\ Len(events) = 3
    /\ events[1].itemId = events[3].itemId
    /\ events[2].itemId # events[1].itemId
    /\ Score(events[2].outcome) = 0
    /\ events[2].itemId \in Range(ranked)

----------------------------------------------------------------------------
(* Properties of the review sets (specification SpecReview) *)

LogItems == {e.itemId : e \in Range(studyLog)}

\* How many calendar days before the Asia/Seoul date of 'now' event e is dated.
DaysBefore(e) == KstDayNumber(now) - KstDayNumber(e.ts)

\* C4: with max at least the number of distinct items, getYesterdayReviewSet
\* holds an item iff the log has an event of it dated (in Asia/Seoul) exactly
\* one calendar day before 'now'.
C4_YesterdayByDate ==
    (reviewOp = "yesterday" /\ reviewMax >= Cardinality(LogItems)) =>
        \A id \in ItemIds :
            id \in Range(reviewSet) <=>
                \E e \in Range(studyLog) : e.itemId = id /\ DaysBefore(e) = 1

\* Late in the day, an event of the last hour of yesterday puts its item in
\* the set and an event of the day before does not.
C4_Witness ==
    /\ reviewOp = "yesterday"
    /\ reviewMax = DefaultMax
    /\ now = KstMidnight + 23
    /\ Len(studyLog) = 2
    /\ DaysBefore(studyLog[1]) = 2
    /\ studyLog[2].ts = KstMidnight - 1
    /\ studyLog[1].itemId # studyLog[2].itemId
    /\ reviewSet = <<studyLog[2].itemId>>

\* C5: with max at least the number of distinct items, getLast7DaysReviewSet
\* holds an item iff the log has an event of it dated d with
\* today-7 <= d <= today-1 (both ends included).
C5_Last7ByDate ==
    (reviewOp = "last7" /\ reviewMax >= Cardinality(LogItems)) =>
        \A id \in ItemIds :
            id \in Range(reviewSet) <=>
                \E e \in Range(studyLog) :
                    e.itemId = id /\ DaysBefore(e) >= 1 /\ DaysBefore(e) <= 7

\* An event dated today-7 is in, an event dated today-8 is out.
C5_Witness ==
    /\ reviewOp = "last7"
    /\ reviewMax = DefaultMax
    /\ Len(studyLog) = 2
    /\ DaysBefore(studyLog[1]) = 8
    /\ DaysBefore(studyLog[2]) = 7
    /\ studyLog[1].itemId # studyLog[2].itemId
    /\ reviewSet = <<studyLog[2].itemId>>

\* The events of the log in the window of the last call, by calendar day.
WindowEvents ==
    IF reviewOp = "yesterday"
    THEN SelectSeq(studyLog, LAMBDA e : DaysBefore(e) = 1)
    ELSE SelectSeq(studyLog, LAMBDA e : DaysBefore(e) >= 1 /\ DaysBefore(e) <= 7)

\* C6: the result of either review set is the first min(max, n) elements, in
\* unchanged order, of the ranking of the window's events.
C6_MaxTakesPrefix ==
    reviewOp # "none" =>
        LET r == _rankEvents(WindowEvents)
        IN  /\ Len(reviewSet) = Min2(reviewMax, Len(r))
            /\ \A i \in 1..Len(reviewSet) : reviewSet[i] = r[i]

\* Two items ranked against the order of the log, cut to the first.
C6_Witness ==
    /\ reviewOp = "yesterday"
    /\ reviewMax = 1
    /\ Len(studyLog) = 2
    /\ Len(_rankEvents(WindowEvents)) = 2
    /\ studyLog[1].outcome = "view"
    /\ studyLog[2].outcome = "wrong"
    /\ reviewSet = <<studyLog[2].itemId>>

----------------------------------------------------------------------------
(* Property of generateQuizData (specification SpecQuizData) *)

\* The places of catalog p: <<d, w>> is word w of day d, and the place after
\* the last word of day d is the day's pattern.
CatalogPlaces(p) == UNION {{<<d, w>> : w \in 1..(Len(p[d].words) + 1)} : d \in 1..Len(p)}

IsPatternPlace(p, pl) == pl[2] = Len(p[pl[1]].words) + 1

PlaceId(p, pl) ==
    IF IsPatternPlace(p, pl) THEN PatternId(pl[1]) ELSE WordId(pl[1], pl[2])

\* The quiz item of a place of the catalog.
PlaceItem(p, pl) ==
    IF IsPatternPlace(p, pl)
    THEN [id |-> PlaceId(p, pl), type |-> "pattern",
          jp |-> p[pl[1]].pattern, ko |-> p[pl[1]].pattern_ko]
    ELSE [id |-> PlaceId(p, pl), type |-> "word",
          jp |-> p[pl[1]].words[pl[2]].jp, ko |-> p[pl[1]].words[pl[2]].ko]

PlaceBefore(a, b) == a[1] < b[1] \/ (a[1] = b[1] /\ a[2] < b[2])

\* C7: generateQuizData returns exactly the catalog's items whose id is
\* requested, in catalog order whatever the order of the request; requested
\* ids the catalog lacks are dropped, and an empty catalog gives no item.
C7_CatalogOrder ==
    pc = "generated" =>
        \E places \in SeqsUpTo(CatalogPlaces(plan), Len(items)) :
            /\ Len(places) = Len(items)
            /\ \A k \in 1..Len(items) : items[k] = PlaceItem(plan, places[k])
            /\ \A k \in 1..(Len(items) - 1) : PlaceBefore(places[k], places[k + 1])
            /\ \A pl \in CatalogPlaces(plan) :
                   PlaceId(plan, pl) \in Range(itemIds) <=> pl \in Range(places)

\* A request in the reverse of catalog order with an id the catalog lacks.
C7_Witness ==
    /\ pc = "generated"
    /\ plan = PlanTwoDays
    /\ itemIds = <<"D2W1", "D1P", "D3W1">>
    /\ Len(items) = 2
    /\ items[1].id = "D1P"
    /\ items[2].id = "D2W1"

----------------------------------------------------------------------------
(* Properties of the hand-off and the quiz session (specification Spec; *)
(* C9 also over the catalogs and stored texts of SpecPage)               *)

\* The session exists: the callback has run.
InSession == pc \in {"blank", "sampling", "presenting", "complete"}

\* The k-th event the session appended.
SessionEvent(k) == studyLog[sessionBase + k]

C9_OneEventPerQuestion ==
    InSession =>
        /\ Len(studyLog) - sessionBase = current
        /\ current <= Len(items)
        /\ pc = "complete" => current = Len(items)
        /\ \A k \in 1..current : SessionEvent(k).itemId = items[k].id

\* C10: startQuiz with an empty or absent list shows 'nothing to review',
\* leaves the stored pending list unchanged and does not navigate; with a
\* non-empty list it stores exactly that list and navigates to the quiz.
C10_StartQuizHandoff ==
    [][\A arg \in StartQuizArgs :
          StartQuiz(arg) =>
              IF arg.isNull \/ arg.list = <<>>
              THEN /\ alertShown'
                   /\ quizItems' = quizItems
                   /\ page' = page
              ELSE /\ quizItems' = [present |-> TRUE, list |-> arg.list]
                   /\ page' = "quiz"
                   /\ ~alertShown']_vars

\* The alert is up on the home page while a pending list stored by an
\* earlier hand-off is still there.
C10_Witness ==
    /\ alertShown
    /\ page = "home"
    /\ quizItems.present
    /\ Len(quizItems.list) = 2

----------------------------------------------------------------------------
(* Properties of one load of the quiz page (specification SpecPage) *)

\* C12: when the fetch fails, loadDailyPlan writes the failure to the console
\* and hands the empty list to its callback, once; no error is raised and
\* fetch is not called again.
C12_FetchFailureDelivered ==
    /\ [][FetchFails =>
            /\ consoleErrors' = consoleErrors + 1
            /\ callbackCalls' = callbackCalls + 1
            /\ plan' = <<>>
            /\ thrown' = thrown
            /\ fetchCalls' = fetchCalls]_vars
    /\ [](fetchCalls <= 1)

\* The fetch of a catalog that has the requested item failed: one message,
\* one callback with the empty list, one fetch.
C12_Witness ==
    /\ catalog = PlanTwoDays
    /\ itemIds = <<"D1W1">>
    /\ fetchCalls = 1
    /\ consoleErrors = 1
    /\ callbackCalls = 1
    /\ plan = <<>>
    /\ thrown = {}

\* C13: whenever the resolved quiz item sequence is empty, buildQuizPage
\* reports 'no items': it neither presents a question nor reports 'quiz
\* complete'.
C13_EmptyQuizReported ==
    (pc = "empty" \/ (InSession /\ items = <<>>)) =>
        /\ pc \notin {"sampling", "presenting"}
        /\ view # "complete"
        /\ hasContainer => view = "noItems"

\* The question on the screen is the one at the cursor.
PresentingCurrent ==
    /\ pc = "presenting"
    /\ current < Len(items)
    /\ shown.item = items[current + 1]

\* C15: the session goes Ready, Presenting(0), ..., Presenting(n-1), Complete:
\* the cursor moves only by +1 and only on an answer to the question at the
\* cursor, a question being built is presented next, the answer to the last
\* question leads to Complete and to no other, and Complete is left no more
\* nor is an event appended after it.
C15_SessionProtocol ==
    [][/\ current' # current => (PresentingCurrent /\ current' = current + 1)
       /\ studyLog' # studyLog => current' = current + 1
       /\ pc = "sampling" => pc' \in {"sampling", "presenting"}
       /\ pc' = "presenting" => PresentingCurrent'
       /\ (pc = "presenting" /\ current' # current) =>
              (pc' = "complete" <=> current + 1 = Len(items))
       /\ (pc # "complete" /\ pc' = "complete") => current' = Len(items')
       /\ pc = "complete" =>
              (pc' = "complete" /\ current' = current /\ studyLog' = studyLog)]_vars

\* C16: every question presented offers exactly 4 pairwise distinct choices,
\* one of them the item's answer and the other three translations of words
\* of the catalog, so exactly one choice evaluates to correct.
C16_FourDistinctChoices ==
    view = "question" =>
        /\ Len(shown.options) = 4
        /\ Cardinality(Range(shown.options)) = 4
        /\ shown.item.ko \in Range(shown.options)
        /\ Range(shown.options) \ {shown.item.ko} \subseteq Translations(catalog)
        /\ Cardinality({k \in 1..4 : shown.options[k] = shown.item.ko}) = 1

\* A pattern is asked (its answer is no word's translation) and the shuffle
\* moved the answer off the first button.
C16_Witness ==
    /\ view = "question"
    /\ pc = "presenting"
    /\ shown.item.type = "pattern"
    /\ shown.options[1] # shown.item.ko
    /\ shown.options[4] = shown.item.ko

\* The catalog the callback received supplies at least 4 distinct word
\* translations.
EnoughTranslations == Cardinality(Translations(plan)) >= 4

\* C17: with at least 4 distinct word translations in the catalog, the
\* choice-building of a question ends, raising nothing, with that question
\* presented, and a learner who keeps answering reaches Complete.
C17_ChoiceBuildingEnds ==
    /\ [][(pc = "sampling" /\ EnoughTranslations) =>
             /\ pc' \in {"sampling", "presenting"}
             /\ pc' = "presenting" => PresentingCurrent'
             /\ thrown' = thrown
             /\ consoleErrors' = consoleErrors]_vars
    /\ (pc = "sampling" /\ EnoughTranslations) ~> PresentingCurrent
    /\ (pc = "sampling" /\ EnoughTranslations) ~> (pc = "complete" /\ current = Len(items))

\* C18: one call of loadDailyPlan invokes its callback at most once, so one
\* buildQuizPage call creates at most one session.
C18_CallbackAtMostOnce ==
    /\ callbackCalls <= fetchCalls
    /\ callbackCalls <= 1

----------------------------------------------------------------------------
(* Properties of the operations on the stored log (specification SpecCore) *)

\* C11: a stored log that does not decode is read as the empty log and no
\* error is raised: the review sets come out empty and logStudy leaves a log
\* that holds exactly the new event.
C11_MalformedReadsAsEmpty ==
    /\ []("SyntaxError" \notin thrown)
    /\ []((reviewOp # "none" /\ "studyLog" \in malformed) => reviewSet = <<>>)
    /\ [][\A id \in CoreIds : \A outcome \in ReviewOutcomes :
            (LogStudy(id, outcome) /\ "studyLog" \in malformed) =>
                /\ "studyLog" \notin malformed'
                /\ studyLog' = logStudy(<<>>, id, ItemTypeOf(id), outcome, now)]_vars

\* C14: the log is append-only: each step leaves the previous log as a
\* prefix of the new one, logStudy adds exactly one event, at the end, and
\* the review sets, startQuiz and generateQuizData leave the log as it is
\* (the log being one that logStudy wrote, which decodes).
C14_AppendOnly ==
    [][/\ Len(studyLog') >= Len(studyLog)
       /\ SubSeq(studyLog', 1, Len(studyLog)) = studyLog
       /\ \A id \in CoreIds : \A outcome \in ReviewOutcomes :
            (LogStudy(id, outcome) /\ "studyLog" \notin malformed) =>
                /\ Len(studyLog') = Len(studyLog) + 1
                /\ studyLog'[Len(studyLog')] =
                       [itemId |-> id, itemType |-> ItemTypeOf(id),
                        outcome |-> outcome, ts |-> now]
       /\ \/ \E max \in CoreMaxes : CallGetYesterdayReviewSet(max)
          \/ \E max \in CoreMaxes : CallGetLast7DaysReviewSet(max)
          \/ \E arg \in CoreArgs : StartQuiz(arg)
          \/ CallGenerateQuizData
          => studyLog' = studyLog]_vars

\* An event was appended to a log that held one, and a review set was
\* computed and a quiz handed off since.
C14_Witness ==
    /\ Len(studyLog) = 2
    /\ studyLog[1].ts < KstMidnight
    /\ studyLog[2].ts >= KstMidnight
    /\ reviewOp = "yesterday"
    /\ reviewSet = <<studyLog[1].itemId>>
    /\ page = "quiz"
    /\ pc = "idle"

\* C19: while the Asia/Seoul date of 'now' stays the same, a step that
\* appends an event with logStudy (or lets time pass) changes neither review
\* set, whatever max is.
C19_AnswersKeepReviewSets ==
    [][(/\ studyLog' # studyLog \/ now' # now
        /\ KstDayNumber(now') = KstDayNumber(now)
        /\ "studyLog" \notin malformed) =>
          \A max \in CoreMaxes :
              /\ getYesterdayReviewSet(studyLog', now', max)
                     = getYesterdayReviewSet(studyLog, now, max)
              /\ getLast7DaysReviewSet(studyLog', now', max)
                     = getLast7DaysReviewSet(studyLog, now, max)]_vars

\* An event of today follows an event of yesterday in the log, and the set
\* of the last 7 days computed afterwards, late in the day, holds yesterday's
\* item only.
C19_Witness ==
    /\ Len(studyLog) = 2
    /\ studyLog[1].ts = KstMidnight - 1
    /\ studyLog[2].ts = KstMidnight
    /\ studyLog[2].itemId # studyLog[1].itemId
    /\ now = KstMidnight + 23
    /\ reviewOp = "last7"
    /\ reviewMax = DefaultMax
    /\ reviewSet = <<studyLog[1].itemId>>

====
